---- MODULE Spec2Model ----
(***************************************************************************)
(* The temporal graph-state engine of rdf-graph-viewer (class              *)
(* RDFGraphViewer, src/rdf-graph-viewer/src/main.js): change detection on  *)
(* the polled RDF text, projection of triples into a node-link graph, the  *)
(* history of snapshots, and the live/paused timeline controller.          *)
(*                                                                         *)
(* Strings the code inspects character by character (IRIs, file paths)     *)
(* are sequences of one-character strings.  Times are integer half         *)
(* milliseconds since startTime (the code's division by 1000 is a fixed    *)
(* rescaling that preserves order, equality and distances): a reading of   *)
(* Date.now() is a whole millisecond, the time slider may stop between two *)
(* of them.                                                                *)
(***************************************************************************)
EXTENDS Integers, Sequences, FiniteSets, TLC

(***************************************************************************)
(* Bounds of the model.                                                    *)
(***************************************************************************)
MaxStates == 2      \* polls append only while the history is shorter
MaxClock == 1       \* the clock stops advancing at this many milliseconds
MaxInflight == 2    \* fetches that may be pending at the same time
MaxTriples == 3     \* triples in an array passed to triplesToGraph directly
MaxIriLen == 4      \* characters of an IRI passed to shortenURI directly
MaxUrlLen == 2      \* characters of a containerUrl passed to solid_list
MaxDocLen == 3      \* tokens of a container document the Pod answers with
MaxWrites == 1      \* times the watched file is rewritten

(***************************************************************************)
(* Small helpers.                                                          *)
(***************************************************************************)
Abs(x) == IF x < 0 THEN -x ELSE x

Min(a, b) == IF a < b THEN a ELSE b

Max(a, b) == IF a > b THEN a ELSE b

Last(s) == s[Len(s)]

(***************************************************************************)
(* IRIs and terms.  A term is what the N3 parser hands to the callback:    *)
(* termType and value.                                                     *)
(***************************************************************************)
Separators == {"/", "#"}

TYPE == <<"t", "y", "p", "e">>

RdfType == <<"r", "#">> \o TYPE

ExA == <<"e", "/", "a">>

ExB == <<"e", "/", "b">>

ExKnows == <<"e", "/", "k">>

ExPerson == <<"e", "#", "P">>

NamedNode(iri) == [termType |-> "NamedNode", value |-> iri]

Literal(val) == [termType |-> "Literal", value |-> val]

Triple(s, p, o) == [subject |-> NamedNode(s), predicate |-> NamedNode(p), object |-> o]

(***************************************************************************)
(* shortenURI: uri.match(/[#/]([^#/]+)$/) -- the longest suffix without a  *)
(* separator, when it is non-empty and preceded by a separator; otherwise  *)
(* the uri itself.                                                         *)
(***************************************************************************)
RECURSIVE TailStart(_, _)
\* The least i such that uri[i..k] holds no separator (k+1 when uri[k] is one).
TailStart(uri, k) ==
  IF k = 0 \/ uri[k] \in Separators THEN k + 1 ELSE TailStart(uri, k - 1)

\* shortenURI as it would be with ([^#/]*) in the pattern.
shortenURIEmptyTail(uri) ==
  LET i == TailStart(uri, Len(uri))
  IN  IF i > 1
        THEN SubSeq(uri, i, Len(uri))
        ELSE uri

shortenURI(uri) ==
  LET i == TailStart(uri, Len(uri))
  IN  IF i <= Len(uri) /\ i > 1
        THEN SubSeq(uri, i, Len(uri))
        ELSE uri

(***************************************************************************)
(* triplesToGraph under a typeDisplay setting ("on", "nodes", "off").      *)
(***************************************************************************)
TypeDisplays == {"on", "nodes", "off"}

\* nodeTypes as it would be if the first pass unshifted instead of pushed.
RECURSIVE nodeTypesReversed(_, _)
nodeTypesReversed(triples, label) ==
  IF triples = <<>> THEN <<>>
  ELSE LET triple == Head(triples)
           rest == nodeTypesReversed(Tail(triples), label)
       IN  IF shortenURI(triple.predicate.value) = TYPE
              /\ shortenURI(triple.subject.value) = label
             THEN rest \o <<shortenURI(triple.object.value)>>
             ELSE rest

RECURSIVE nodeTypes(_, _)
\* First pass: the array nodeTypes.get(label) || [] built from the triples.
nodeTypes(triples, label) ==
  IF triples = <<>> THEN <<>>
  ELSE LET triple == Head(triples)
           rest == nodeTypes(Tail(triples), label)
       IN  IF shortenURI(triple.predicate.value) = TYPE
              /\ shortenURI(triple.subject.value) = label
             THEN <<shortenURI(triple.object.value)>> \o rest
             ELSE rest

HasNode(nodes, id) == \E i \in 1..Len(nodes) : nodes[i].id = id

\* A node as the second pass creates it (isType is absent on plain nodes).
PlainNode(triples, typeDisplay, id) ==
  [id |-> id, label |-> id,
   types |-> IF typeDisplay = "on" THEN nodeTypes(triples, id) ELSE <<>>,
   isType |-> FALSE]

TypeNode(id) == [id |-> id, label |-> id, types |-> <<>>, isType |-> TRUE]

\* nodes.set(id, node) guarded by !nodes.has(id), nodes being a Map keyed
\* by id; above it as it would be with an array that nodes are pushed to.
EnsureNodePushed(nodes, node) == Append(nodes, node)

EnsureNode(nodes, node) ==
  IF HasNode(nodes, node.id) THEN nodes ELSE Append(nodes, node)

Link(source, target, predicate) ==
  [source |-> source, target |-> target, predicate |-> predicate]

\* One iteration of the second pass, and above it as it would be if the
\* link of a non-type statement were pushed whatever the object's termType.
BuildStepLinkingLiterals(g, triples, typeDisplay, triple) ==
  LET subject == shortenURI(triple.subject.value)
      predicate == shortenURI(triple.predicate.value)
      object == shortenURI(triple.object.value)
      withSubject == EnsureNode(g.nodes, PlainNode(triples, typeDisplay, subject))
  IN  IF predicate = TYPE
        THEN IF typeDisplay = "nodes"
               THEN [nodes |-> EnsureNode(withSubject, TypeNode(object)),
                     links |-> Append(g.links, Link(subject, object, predicate))]
               ELSE [nodes |-> withSubject, links |-> g.links]
        ELSE IF triple.object.termType = "NamedNode"
               THEN [nodes |-> EnsureNode(withSubject,
                                          PlainNode(triples, typeDisplay, object)),
                     links |-> Append(g.links, Link(subject, object, predicate))]
               ELSE [nodes |-> withSubject,
                     links |-> Append(g.links, Link(subject, object, predicate))]

BuildStep(g, triples, typeDisplay, triple) ==
  LET subject == shortenURI(triple.subject.value)
      predicate == shortenURI(triple.predicate.value)
      object == shortenURI(triple.object.value)
      withSubject == EnsureNode(g.nodes, PlainNode(triples, typeDisplay, subject))
  IN  IF predicate = TYPE
        THEN IF typeDisplay = "nodes"
               THEN [nodes |-> EnsureNode(withSubject, TypeNode(object)),
                     links |-> Append(g.links, Link(subject, object, predicate))]
               ELSE [nodes |-> withSubject, links |-> g.links]
        ELSE IF triple.object.termType = "NamedNode"
               THEN [nodes |-> EnsureNode(withSubject,
                                          PlainNode(triples, typeDisplay, object)),
                     links |-> Append(g.links, Link(subject, object, predicate))]
               ELSE [nodes |-> withSubject, links |-> g.links]

RECURSIVE BuildPass(_, _, _, _)
BuildPass(g, triples, typeDisplay, k) ==
  IF k > Len(triples) THEN g
  ELSE BuildPass(BuildStep(g, triples, typeDisplay, triples[k]),
                 triples, typeDisplay, k + 1)

triplesToGraph(triples, typeDisplay) ==
  BuildPass([nodes |-> <<>>, links |-> <<>>], triples, typeDisplay, 1)

(***************************************************************************)
(* Raw document texts.  A text is a sequence of tokens: a statement, white *)
(* space, or a token that is no Turtle.  Two texts are the same string     *)
(* exactly when they are the same token sequence.                          *)
(***************************************************************************)
NoTriple == Triple(<<>>, <<>>, NamedNode(<<>>))

Stmt(t) == [kind |-> "statement", triple |-> t]

Space == [kind |-> "space", triple |-> NoTriple]

Junk == [kind |-> "junk", triple |-> NoTriple]

TypeStmt == Stmt(Triple(ExA, RdfType, NamedNode(ExPerson)))

KnowsStmt == Stmt(Triple(ExA, ExKnows, NamedNode(ExB)))

TextA == <<TypeStmt>>

TextASpaced == <<TypeStmt, Space>>

TextAB == <<TypeStmt, KnowsStmt>>

TextBad == <<TypeStmt, Junk>>

\* The file while it is empty, e.g. truncated before it is rewritten.
TextEmpty == <<>>

\* What a poll may fetch.
Texts == {TextEmpty, TextA, TextASpaced, TextBad}

\* N3 Parser.parse(text, callback): the callback receives every triple and
\* then a null triple, or an error at the first malformed token, after
\* which it is not called again.
ParseOk(text) == \A i \in 1..Len(text) : text[i].kind # "junk"

RECURSIVE ParseTriples(_)
ParseTriples(text) ==
  IF text = <<>> THEN <<>>
  ELSE IF Head(text).kind = "statement"
         THEN <<Head(text).triple>> \o ParseTriples(Tail(text))
         ELSE ParseTriples(Tail(text))

(***************************************************************************)
(* File paths and the URL the poll fetches.                                *)
(***************************************************************************)
DefaultPath == <<"/", "i">>

OtherPath == <<"o">>

Paths == {DefaultPath, OtherPath}

\* startsWith('~') || startsWith('/') && includes('/')
UsesApi(path) ==
  \/ (Len(path) > 0 /\ path[1] = "~")
  \/ (Len(path) > 0 /\ path[1] = "/" /\ \E i \in 1..Len(path) : path[i] = "/")

UrlFor(path) == [api |-> UsesApi(path), path |-> path]

Urls == {UrlFor(p) : p \in Paths}

(***************************************************************************)
(* State.                                                                  *)
(***************************************************************************)
\* The watched file before anything was written to it or read from it.
NoFile == [text |-> TextEmpty, writes |-> 0, reads |-> <<>>]

\* let solidSession: Session | null = null
NoSession == [isNull |-> TRUE]

\* let config: Config | null = null
NoConfig == [isNull |-> TRUE]

VARIABLES
  states,             \* this.states: snapshots [nodes, links, timestamp, bound]
  currentStateIndex,  \* this.currentStateIndex (0-based)
  lastRenderedIndex,  \* this.lastRenderedIndex
  isLive,             \* this.isLive
  isPaused,           \* this.isPaused
  lastRdfContent,     \* this.lastRdfContent: [isNull, text]
  rdfFilePath,        \* this.settings.rdfFilePath
  typeDisplay,        \* this.settings.typeDisplay
  tickSlider,         \* #tick-slider: [value, max]
  timeSlider,         \* #time-slider: [value, max]
  inflight,           \* pending fetches of the poll timer, per URL
  clock,              \* the latest reading of Date.now() - startTime
  calls,              \* the renderState calls of the latest handler
  input,              \* the argument of a direct call of triplesToGraph or
                      \* shortenURI
  output,             \* what that call returned, and whether it has (done)
  solidSession,       \* mcp-server: the global solidSession (null or a Session)
  requests,           \* mcp-server: what the session's fetch (or login) was
                      \* called with and what the Pod answered, in call order
  file,               \* the watched file: its text, how often it was written,
                      \* and the texts read for requests not yet answered
  config              \* mcp-server: the global config (null or a Config)

vars == <<states, currentStateIndex, lastRenderedIndex, isLive, isPaused,
          lastRdfContent, rdfFilePath, typeDisplay, tickSlider, timeSlider,
          inflight, clock, calls, input, output, solidSession, requests, file, config>>

\* The viewer object as a record, so that methods are functions on it.
This ==
  [states |-> states, currentStateIndex |-> currentStateIndex,
   lastRenderedIndex |-> lastRenderedIndex, isLive |-> isLive,
   isPaused |-> isPaused, lastRdfContent |-> lastRdfContent,
   rdfFilePath |-> rdfFilePath, typeDisplay |-> typeDisplay,
   tickSlider |-> tickSlider, timeSlider |-> timeSlider, calls |-> <<>>]

Becomes(v) ==
  /\ states' = v.states
  /\ currentStateIndex' = v.currentStateIndex
  /\ lastRenderedIndex' = v.lastRenderedIndex
  /\ isLive' = v.isLive
  /\ isPaused' = v.isPaused
  /\ lastRdfContent' = v.lastRdfContent
  /\ rdfFilePath' = v.rdfFilePath
  /\ typeDisplay' = v.typeDisplay
  /\ tickSlider' = v.tickSlider
  /\ timeSlider' = v.timeSlider
  /\ calls' = v.calls

NullContent == [isNull |-> TRUE, text |-> <<>>]

Content(text) == [isNull |-> FALSE, text |-> text]

\* if (this.lastRdfContent): neither null nor the empty string
Truthy(content) == ~content.isNull /\ content.text # <<>>

(***************************************************************************)
(* <input type="range">: the value is kept within [0, max], both when the  *)
(* value and when max is assigned.                                         *)
(***************************************************************************)
Clamp(x, lo, hi) == IF x < lo THEN lo ELSE IF x > hi THEN hi ELSE x

SetValue(slider, x) == [slider EXCEPT !.value = Clamp(x, 0, slider.max)]

\* slider.max = m, and above it as it would be if the assignment were lost.
SetMaxLost(slider, m) == slider

SetMax(slider, m) == [value |-> Clamp(slider.value, 0, m), max |-> m]

(***************************************************************************)
(* renderState(index, animate).  Binding a snapshot to the d3 force        *)
(* simulation (simulation.nodes(data.nodes), force('link').links(          *)
(* data.links)) writes index, x, y, vx, vy into the stored node objects    *)
(* and replaces the stored links' source and target by node objects; a     *)
(* snapshot without nodes has nothing to write to.                         *)
(***************************************************************************)
RenderCall(index, animate, drawn) ==
  [index |-> index, animate |-> animate, drawn |-> drawn]

\* renderState, and above it as it would be without the test
\* index === this.lastRenderedIndex.
renderStateAgain(v, index, animate) ==
  IF index < 0 \/ index >= Len(v.states)
    THEN [v EXCEPT !.calls = Append(@, RenderCall(index, animate, FALSE))]
    ELSE [v EXCEPT !.lastRenderedIndex = index,
                   !.states[index + 1].bound = (v.states[index + 1].nodes # <<>>),
                   !.calls = Append(@, RenderCall(index, animate, TRUE))]

renderState(v, index, animate) ==
  IF index < 0 \/ index >= Len(v.states) \/ index = v.lastRenderedIndex
    THEN [v EXCEPT !.calls = Append(@, RenderCall(index, animate, FALSE))]
    ELSE [v EXCEPT !.lastRenderedIndex = index,
                   !.states[index + 1].bound = (v.states[index + 1].nodes # <<>>),
                   !.calls = Append(@, RenderCall(index, animate, TRUE))]

\* updateLiveStatus as it would be without the test isAtLatest.
updateLiveStatusAnywhere(v) ==
  [v EXCEPT !.isLive = ~v.isPaused, !.isPaused = v.isPaused]

\* updateLiveStatus(), and above it as it would be if it assigned isLive only.
updateLiveStatusLiveOnly(v) ==
  LET isAtLatest == v.currentStateIndex = Len(v.states) - 1
  IN  [v EXCEPT !.isLive = isAtLatest /\ ~v.isPaused]

updateLiveStatus(v) ==
  LET isAtLatest == v.currentStateIndex = Len(v.states) - 1
      live == isAtLatest /\ ~v.isPaused
  IN  [v EXCEPT !.isLive = live, !.isPaused = ~live]

\* Closest as it would be with diff <= minDiff: the last nearest index.
RECURSIVE ClosestLast(_, _, _, _)
ClosestLast(sts, timeValue, i, closestIndex) ==
  IF i >= Len(sts) THEN closestIndex
  ELSE IF Abs(sts[i + 1].timestamp - timeValue)
            <= Abs(sts[closestIndex + 1].timestamp - timeValue)
         THEN ClosestLast(sts, timeValue, i + 1, i)
         ELSE ClosestLast(sts, timeValue, i + 1, closestIndex)

\* The first index whose timestamp is nearest to timeValue (strict <).
RECURSIVE Closest(_, _, _, _)
Closest(sts, timeValue, i, closestIndex) ==
  IF i >= Len(sts) THEN closestIndex
  ELSE IF Abs(sts[i + 1].timestamp - timeValue)
            < Abs(sts[closestIndex + 1].timestamp - timeValue)
         THEN Closest(sts, timeValue, i + 1, i)
         ELSE Closest(sts, timeValue, i + 1, closestIndex)

seekToTime(v, timeValue) ==
  IF Len(v.states) = 0 THEN v
  ELSE LET closestIndex == Closest(v.states, timeValue, 1, 0)
           v1 == [v EXCEPT !.currentStateIndex = closestIndex,
                           !.tickSlider = SetValue(@, closestIndex)]
       IN  renderState(updateLiveStatus(v1), closestIndex, FALSE)

seekToTick(v, tickValue) ==
  LET v1 == [v EXCEPT !.currentStateIndex = tickValue]
      v2 == IF tickValue >= 0 /\ tickValue < Len(v.states)
              THEN [v1 EXCEPT !.timeSlider =
                      SetValue(@, v.states[tickValue + 1].timestamp)]
              ELSE v1
  IN  renderState(updateLiveStatus(v2), tickValue, FALSE)

\* goToLive as it would be if it left isPaused as it was.
goToLiveStillPaused(v) ==
  IF Len(v.states) > 0
    THEN LET last == Len(v.states) - 1
             v1 == [v EXCEPT !.isLive = TRUE,
                             !.currentStateIndex = last,
                             !.tickSlider = SetValue(@, last),
                             !.timeSlider = SetValue(@, v.states[last + 1].timestamp)]
         IN  updateLiveStatus(renderState(v1, last, FALSE))
    ELSE v

goToLive(v) ==
  IF Len(v.states) > 0
    THEN LET last == Len(v.states) - 1
             v1 == [v EXCEPT !.isLive = TRUE, !.isPaused = FALSE,
                             !.currentStateIndex = last,
                             !.tickSlider = SetValue(@, last),
                             !.timeSlider = SetValue(@, v.states[last + 1].timestamp)]
         IN  updateLiveStatus(renderState(v1, last, FALSE))
    ELSE v

(***************************************************************************)
(* addNewState.  JSON.stringify of a stored snapshot's {nodes, links}      *)
(* shows what the simulation wrote into it; a fresh projection carries     *)
(* none of it.                                                             *)
(***************************************************************************)
Stringify(nodes, links, bound) == [nodes |-> nodes, links |-> links, sim |-> bound]

Snapshot(graphData, timestamp) ==
  [nodes |-> graphData.nodes, links |-> graphData.links,
   timestamp |-> timestamp, bound |-> FALSE]

\* The comparison of the two JSON.stringify results in addNewState, and
\* above it as it would be if it took the nodes and the links as sets.
IsDuplicateUnordered(sts, graphData) ==
  /\ Len(sts) > 0
  /\ ~Last(sts).bound
  /\ {Last(sts).nodes[i] : i \in 1..Len(Last(sts).nodes)}
       = {graphData.nodes[i] : i \in 1..Len(graphData.nodes)}
  /\ {Last(sts).links[i] : i \in 1..Len(Last(sts).links)}
       = {graphData.links[i] : i \in 1..Len(graphData.links)}

IsDuplicate(sts, graphData) ==
  /\ Len(sts) > 0
  /\ Stringify(Last(sts).nodes, Last(sts).links, Last(sts).bound)
       = Stringify(graphData.nodes, graphData.links, FALSE)

\* autoAdvance as it would be if the new snapshot were shown without animation.
autoAdvanceUnanimated(v, timestamp) ==
  IF v.isLive /\ ~v.isPaused
    THEN LET latest == Len(v.states) - 1
             v1 == [v EXCEPT !.currentStateIndex = latest,
                             !.tickSlider = SetValue(@, latest),
                             !.timeSlider = SetValue(@, timestamp)]
         IN  renderState(v1, latest, FALSE)
    ELSE v

\* autoAdvance as it would be without the test of the mode.
autoAdvanceAlways(v, timestamp) ==
  LET latest == Len(v.states) - 1
      v1 == [v EXCEPT !.currentStateIndex = latest,
                      !.tickSlider = SetValue(@, latest),
                      !.timeSlider = SetValue(@, timestamp)]
  IN  renderState(v1, latest, TRUE)

\* "Only auto-advance if we're in live mode (not paused)"
autoAdvance(v, timestamp) ==
  IF v.isLive /\ ~v.isPaused
    THEN LET latest == Len(v.states) - 1
             v1 == [v EXCEPT !.currentStateIndex = latest,
                             !.tickSlider = SetValue(@, latest),
                             !.timeSlider = SetValue(@, timestamp)]
         IN  renderState(v1, latest, TRUE)
    ELSE v

addNewState(v, triples, timestamp) ==
  LET graphData == triplesToGraph(triples, v.typeDisplay)
  IN  IF IsDuplicate(v.states, graphData) THEN v
      ELSE LET pushed == Append(v.states, Snapshot(graphData, timestamp))
               v1 == [v EXCEPT !.states = pushed,
                               !.timeSlider = SetMax(@, Last(pushed).timestamp),
                               !.tickSlider = SetMax(@, Len(pushed) - 1)]
           IN  autoAdvance(v1, timestamp)

parseAndUpdateGraph(v, rdfContent, timestamp) ==
  IF ParseOk(rdfContent)
    THEN addNewState(v, ParseTriples(rdfContent), timestamp)
    ELSE v

(***************************************************************************)
(* Handlers.  Date.now() has millisecond resolution: a handler reads a     *)
(* value that is not less than the previous reading.                       *)
(***************************************************************************)
Readings == {t \in clock..(2 * MaxClock) : t % 2 = 0}

\* setInterval callback, up to the await of fetch(url)
PollIssue ==
  /\ \E u \in {UrlFor(rdfFilePath)} :
       /\ inflight[u] < MaxInflight
       /\ \A w \in Urls \ {u} : inflight[u] + inflight[w] < MaxInflight
       /\ inflight' = [inflight EXCEPT ![u] = @ + 1]
  /\ calls' = <<>>
  /\ UNCHANGED <<states, currentStateIndex, lastRenderedIndex, isLive, isPaused,
                 lastRdfContent, rdfFilePath, typeDisplay, tickSlider,
                 timeSlider, clock, input, output,
                 solidSession, requests, file, config>>

\* fetch rejects, or response.ok is false
FetchFail ==
  /\ \E u \in Urls :
       /\ inflight[u] > 0
       /\ inflight' = [inflight EXCEPT ![u] = @ - 1]
  /\ calls' = <<>>
  /\ UNCHANGED <<states, currentStateIndex, lastRenderedIndex, isLive, isPaused,
                 lastRdfContent, rdfFilePath, typeDisplay, tickSlider,
                 timeSlider, clock, input, output,
                 solidSession, requests, file, config>>

\* onFetched as it would be without the comparison with the stored text.
onFetchedUncompared(v, rdfContent, timestamp) ==
  parseAndUpdateGraph([v EXCEPT !.lastRdfContent = Content(rdfContent)],
                      rdfContent, timestamp)

onFetched(v, rdfContent, timestamp) ==
  IF v.lastRdfContent.isNull \/ rdfContent # v.lastRdfContent.text
    THEN parseAndUpdateGraph([v EXCEPT !.lastRdfContent = Content(rdfContent)],
                             rdfContent, timestamp)
    ELSE v

\* setInterval callback, from the response on
FetchOk ==
  /\ \E u \in Urls, rdfContent \in Texts, t \in Readings :
       LET v == onFetched(This, rdfContent, t)
       IN  /\ inflight[u] > 0
           /\ Len(v.states) <= MaxStates
           /\ inflight' = [inflight EXCEPT ![u] = @ - 1]
           /\ clock' = IF v.states # states THEN t ELSE clock
           /\ Becomes(v)
           /\ UNCHANGED <<input, output,
                 solidSession, requests, file, config>>

\* The whole setInterval callback when nothing runs between the request and
\* the response: the fetch fails or the response is not ok.
PollFailed ==
  /\ calls' = <<>>
  /\ UNCHANGED <<states, currentStateIndex, lastRenderedIndex, isLive, isPaused,
                 lastRdfContent, rdfFilePath, typeDisplay, tickSlider,
                 timeSlider, inflight, clock, input, output,
                 solidSession, requests, file, config>>

\* The whole setInterval callback when nothing runs between the request and
\* the response: the response is ok, its text is rdfContent, and Date.now()
\* reads t.
PollFetchedWith(rdfContent, t) ==
  /\ LET v == onFetched(This, rdfContent, t)
     IN  /\ Len(v.states) <= MaxStates
         /\ clock' = IF v.states # states THEN t ELSE clock
         /\ Becomes(v)
  /\ UNCHANGED <<inflight, input, output,
                 solidSession, requests, file, config>>

PollFetched == \E rdfContent \in Texts, t \in Readings : PollFetchedWith(rdfContent, t)

\* 'input' on #time-slider, the user having moved it to timeValue
TimeSliderInputAt(timeValue) ==
  /\ timeValue \in 0..timeSlider.max
  /\ Becomes(seekToTime([This EXCEPT !.timeSlider.value = timeValue], timeValue))
  /\ UNCHANGED <<inflight, clock, input, output,
                 solidSession, requests, file, config>>

TimeSliderInput == \E timeValue \in 0..timeSlider.max : TimeSliderInputAt(timeValue)

\* 'input' on #tick-slider, the user having moved it to tickValue
TickSliderInputAt(tickValue) ==
  /\ tickValue \in 0..tickSlider.max
  /\ Becomes(seekToTick([This EXCEPT !.tickSlider.value = tickValue], tickValue))
  /\ UNCHANGED <<inflight, clock, input, output,
                 solidSession, requests, file, config>>

TickSliderInput == \E tickValue \in 0..tickSlider.max : TickSliderInputAt(tickValue)

\* 'click' on #live-btn
LiveButtonClick ==
  /\ ~isLive
  /\ Becomes(goToLive(This))
  /\ UNCHANGED <<inflight, clock, input, output,
                 solidSession, requests, file, config>>

\* The timeline click as it would be if it cleared isLive only.
onTimelineClickUnpaused(v) ==
  IF v.isLive
    THEN updateLiveStatus([v EXCEPT !.isLive = FALSE])
    ELSE v

onTimelineClick(v) ==
  IF v.isLive
    THEN updateLiveStatus([v EXCEPT !.isLive = FALSE, !.isPaused = TRUE])
    ELSE v

\* 'click' on #timeline-wrapper
TimelineClick ==
  /\ Becomes(onTimelineClick(This))
  /\ UNCHANGED <<inflight, clock, input, output,
                 solidSession, requests, file, config>>

onRdfFilePathChange(v, path) ==
  [v EXCEPT !.rdfFilePath = path, !.states = <<>>, !.lastRdfContent = NullContent]

\* 'change' on #rdf-file-path
RdfFilePathChange ==
  /\ \E path \in Paths \ {rdfFilePath} : Becomes(onRdfFilePathChange(This, path))
  /\ UNCHANGED <<inflight, clock, input, output,
                 solidSession, requests, file, config>>

onTypeDisplayChangeKept(v, value, timestamp) ==
  [v EXCEPT !.typeDisplay = value]

onTypeDisplayChange(v, value, timestamp) ==
  LET v1 == [v EXCEPT !.typeDisplay = value]
  IN  IF Truthy(v1.lastRdfContent)
        THEN parseAndUpdateGraph([v1 EXCEPT !.states = <<>>],
                                 v1.lastRdfContent.text, timestamp)
        ELSE v1

\* 'change' on a checked input[name="type-display"]
TypeDisplayChange ==
  /\ \E value \in TypeDisplays \ {typeDisplay}, t \in Readings :
       LET v == onTypeDisplayChange(This, value, t)
       IN  /\ clock' = IF v.states # states /\ v.states # <<>> THEN t ELSE clock
           /\ Becomes(v)
  /\ UNCHANGED <<inflight, input, output,
                 solidSession, requests, file, config>>

\* No call of triplesToGraph from outside the viewer has returned.
NoOutput == [nodes |-> <<>>, links |-> <<>>, done |-> FALSE]

Init ==
  /\ states = <<>>
  /\ currentStateIndex = 0
  /\ lastRenderedIndex = -1
  /\ isLive = TRUE
  /\ isPaused = FALSE
  /\ lastRdfContent = NullContent
  /\ rdfFilePath = DefaultPath
  /\ typeDisplay = "on"
  /\ tickSlider = [value |-> 0, max |-> 0]
  /\ timeSlider = [value |-> 0, max |-> 0]
  /\ inflight = [u \in Urls |-> 0]
  /\ clock = 0
  /\ calls = <<>>
  /\ input = <<>>
  /\ output = NoOutput
  /\ solidSession = NoSession
  /\ requests = <<>>
  /\ file = NoFile
  /\ config = NoConfig

UserEvent ==
  \/ TimeSliderInput
  \/ TickSliderInput
  \/ LiveButtonClick
  \/ TimelineClick
  \/ RdfFilePathChange
  \/ TypeDisplayChange

\* Polls whose request and response are not separated by another handler.
Next ==
  \/ PollFailed
  \/ PollFetched
  \/ UserEvent

Spec == Init /\ [][Next]_vars

\* Polls of a file that holds the same two statements in one order or the
\* other, with or without trailing white space.
TextBA == <<KnowsStmt, TypeStmt>>

TextABSpaced == <<TypeStmt, KnowsStmt, Space>>

ReorderedTexts == {TextAB, TextBA, TextABSpaced}

PollFetchedReordered ==
  \E rdfContent \in ReorderedTexts, t \in Readings : PollFetchedWith(rdfContent, t)

NextReordered ==
  \/ PollFailed
  \/ PollFetchedReordered
  \/ UserEvent

SpecReordered == Init /\ [][NextReordered]_vars

\* Polls as the timer issues them: the response handler runs whenever the
\* fetch settles, after any number of other handlers and timer ticks.
NextAsync ==
  \/ PollIssue
  \/ FetchFail
  \/ FetchOk
  \/ UserEvent

SpecAsync == Init /\ [][NextAsync]_vars

(***************************************************************************)
(* The controller's operations called with any argument, as a test of the  *)
(* class would call them, next to the handlers.                            *)
(***************************************************************************)
TickArgs == -1..(MaxStates + 1)

SeekToTickCallWith(tickValue) ==
  /\ Becomes(seekToTick(This, tickValue))
  /\ UNCHANGED <<inflight, clock, input, output,
                 solidSession, requests, file, config>>

SeekToTickCall == \E tickValue \in TickArgs : SeekToTickCallWith(tickValue)

NextCalls ==
  \/ Next
  \/ SeekToTickCall

SpecCalls == Init /\ [][NextCalls]_vars

(***************************************************************************)
(* The viewer next to the file it watches.  The file is rewritten a        *)
(* bounded number of times; the timer issues a request whatever is still   *)
(* pending, the server reads the file when the request arrives, and the    *)
(* responses come back in any order, or not ok.  Both paths name the file. *)
(***************************************************************************)
\* The texts the watched file holds: statements, or what does not parse.
WatchedTexts == {TextA, TextASpaced, TextBad}

InitWatching ==
  /\ states = <<>>
  /\ currentStateIndex = 0
  /\ lastRenderedIndex = -1
  /\ isLive = TRUE
  /\ isPaused = FALSE
  /\ lastRdfContent = NullContent
  /\ rdfFilePath = DefaultPath
  /\ typeDisplay = "on"
  /\ tickSlider = [value |-> 0, max |-> 0]
  /\ timeSlider = [value |-> 0, max |-> 0]
  /\ inflight = [u \in Urls |-> 0]
  /\ clock = 0
  /\ calls = <<>>
  /\ input = <<>>
  /\ output = NoOutput
  /\ solidSession = NoSession
  /\ requests = <<>>
  /\ file \in {[text |-> text, writes |-> 0, reads |-> <<>>] :
               text \in WatchedTexts}
  /\ config = NoConfig

\* The file is rewritten with another text.
FileWrite ==
  /\ file.writes < MaxWrites
  /\ \E text \in WatchedTexts \ {file.text} :
       file' = [file EXCEPT !.text = text, !.writes = @ + 1]
  /\ UNCHANGED <<states, currentStateIndex, lastRenderedIndex, isLive, isPaused,
                 lastRdfContent, rdfFilePath, typeDisplay, tickSlider,
                 timeSlider, inflight, clock, calls, input, output,
                 solidSession, requests, config>>

\* setInterval callback, up to the await of fetch(url); the server reads
\* the file (readFileSync).
PollRequest ==
  /\ Len(file.reads) < MaxInflight
  /\ file' = [file EXCEPT !.reads = Append(@, file.text)]
  /\ calls' = <<>>
  /\ UNCHANGED <<states, currentStateIndex, lastRenderedIndex, isLive, isPaused,
                 lastRdfContent, rdfFilePath, typeDisplay, tickSlider,
                 timeSlider, inflight, clock, input, output,
                 solidSession, requests, config>>

\* The pending reads without the i-th.
Answered(reads, i) ==
  [k \in 1..(Len(reads) - 1) |-> IF k < i THEN reads[k] ELSE reads[k + 1]]

\* setInterval callback, from a response on that is ok
PollAnswerOk ==
  /\ \E i \in 1..Len(file.reads), t \in Readings :
       LET v == onFetched(This, file.reads[i], t)
       IN  /\ file' = [file EXCEPT !.reads = Answered(@, i)]
           /\ clock' = IF v.states # states THEN t ELSE clock
           /\ Becomes(v)
  /\ UNCHANGED <<inflight, input, output, solidSession, requests, config>>

\* fetch rejects, or a response is not ok
PollAnswerFail ==
  /\ \E i \in 1..Len(file.reads) :
       file' = [file EXCEPT !.reads = Answered(@, i)]
  /\ calls' = <<>>
  /\ UNCHANGED <<states, currentStateIndex, lastRenderedIndex, isLive, isPaused,
                 lastRdfContent, rdfFilePath, typeDisplay, tickSlider,
                 timeSlider, inflight, clock, input, output,
                 solidSession, requests, config>>

\* An answer that is ok, by its effect: a pending read is answered and its
\* text is the last content seen.
OkAnswer ==
  \E i \in 1..Len(file.reads) :
    /\ file'.reads = Answered(file.reads, i)
    /\ lastRdfContent' = Content(file.reads[i])

NextWatching ==
  \/ FileWrite
  \/ PollRequest
  \/ PollAnswerOk
  \/ PollAnswerFail
  \/ TickSliderInput
  \/ LiveButtonClick
  \/ TimelineClick
  \/ RdfFilePathChange
  \/ TypeDisplayChange

\* setInterval keeps firing the callback, and while requests are pending
\* again and again, an answer that is ok comes back again and again.
SpecWatching ==
  /\ InitWatching
  /\ [][NextWatching]_vars
  /\ WF_vars(PollRequest)
  /\ ([]<>(file.reads # <<>>) => []<><<OkAnswer>>_vars)

(***************************************************************************)
(* triplesToGraph called on its own, as a test of the class would call it: *)
(* on a viewer just constructed, with the type display setting chosen and  *)
(* an array of triples as the parser would deliver them.                   *)
(***************************************************************************)
ExQ == <<"e", "#", "Q">>

ExName == <<"e", "/", "n">>

TypeAP == Triple(ExA, RdfType, NamedNode(ExPerson))

TypeAQ == Triple(ExA, RdfType, NamedNode(ExQ))

KnowsAB == Triple(ExA, ExKnows, NamedNode(ExB))

KnowsBP == Triple(ExB, ExKnows, NamedNode(ExPerson))

NameA == Triple(ExA, ExName, Literal(<<"x">>))

TypeALit == Triple(ExA, RdfType, Literal(<<"x">>))

\* Another IRI that shortens to the label of ExPerson.
ExSlashP == <<"e", "/", "P">>

KnowsASlashP == Triple(ExA, ExKnows, NamedNode(ExSlashP))

SampleTriples ==
  {TypeAP, TypeAQ, KnowsAB, KnowsBP, NameA, TypeALit, KnowsASlashP}

TripleArrays == UNION {[1..n -> SampleTriples] : n \in 0..MaxTriples}

InitProjector ==
  /\ states = <<>>
  /\ currentStateIndex = 0
  /\ lastRenderedIndex = -1
  /\ isLive = TRUE
  /\ isPaused = FALSE
  /\ lastRdfContent = NullContent
  /\ rdfFilePath = DefaultPath
  /\ typeDisplay \in TypeDisplays
  /\ tickSlider = [value |-> 0, max |-> 0]
  /\ timeSlider = [value |-> 0, max |-> 0]
  /\ inflight = [u \in Urls |-> 0]
  /\ clock = 0
  /\ calls = <<>>
  /\ input \in TripleArrays
  /\ output = NoOutput
  /\ solidSession = NoSession
  /\ requests = <<>>
  /\ file = NoFile
  /\ config = NoConfig

\* output = viewer.triplesToGraph(input)
TriplesToGraphCall ==
  /\ ~output.done
  /\ LET graphData == triplesToGraph(input, typeDisplay)
     IN  output' = [nodes |-> graphData.nodes, links |-> graphData.links,
                    done |-> TRUE]
  /\ UNCHANGED <<states, currentStateIndex, lastRenderedIndex, isLive, isPaused,
                 lastRdfContent, rdfFilePath, typeDisplay, tickSlider,
                 timeSlider, inflight, clock, calls, input,
                 solidSession, requests, file, config>>

NextProjector == TriplesToGraphCall

SpecProjector == InitProjector /\ [][NextProjector]_vars

(***************************************************************************)
(* shortenURI called on its own with any string over a letter and the two  *)
(* separators.                                                             *)
(***************************************************************************)
IriChars == {"a"} \cup Separators

IriStrings == UNION {[1..n -> IriChars] : n \in 0..MaxIriLen}

\* No call of shortenURI from outside the viewer has returned.
NoLabel == [value |-> <<>>, done |-> FALSE]

InitShortener ==
  /\ states = <<>>
  /\ currentStateIndex = 0
  /\ lastRenderedIndex = -1
  /\ isLive = TRUE
  /\ isPaused = FALSE
  /\ lastRdfContent = NullContent
  /\ rdfFilePath = DefaultPath
  /\ typeDisplay = "on"
  /\ tickSlider = [value |-> 0, max |-> 0]
  /\ timeSlider = [value |-> 0, max |-> 0]
  /\ inflight = [u \in Urls |-> 0]
  /\ clock = 0
  /\ calls = <<>>
  /\ input \in IriStrings
  /\ output = NoLabel
  /\ solidSession = NoSession
  /\ requests = <<>>
  /\ file = NoFile
  /\ config = NoConfig

\* output = viewer.shortenURI(input)
ShortenURICall ==
  /\ ~output.done
  /\ output' = [value |-> shortenURI(input), done |-> TRUE]
  /\ UNCHANGED <<states, currentStateIndex, lastRenderedIndex, isLive, isPaused,
                 lastRdfContent, rdfFilePath, typeDisplay, tickSlider,
                 timeSlider, inflight, clock, calls, input,
                 solidSession, requests, file, config>>

NextShortener == ShortenURICall

SpecShortener == InitShortener /\ [][NextShortener]_vars

(***************************************************************************)
(* mcp-server (src/mcp-server/src/index.ts): the solid_list tool.  The     *)
(* Solid session and the N3 parser and store are libraries: the session's  *)
(* fetch answers with whatever the Pod holds, the parser turns a document  *)
(* into quads or throws at a malformed token, the store keeps each quad    *)
(* once and hands the matching quads back in an order of its own.          *)
(***************************************************************************)
Session == [isNull |-> FALSE]

Sessions == {NoSession, Session}

UrlChars == {"c", "/"}

ContainerUrls == UNION {[1..n -> UrlChars] : n \in 0..MaxUrlLen}

\* 'http://www.w3.org/ns/ldp#contains'
LdpContains == <<"l", "#", "c">>

LdpBasicContainer == <<"l", "#", "B">>

PodC == <<"c", "/">>

PodD == <<"d", "/">>

PodX == <<"c", "/", "x">>

PodY == <<"c", "/", "y">>

\* What a container document may hold: ldp:contains statements with the
\* same and with different subjects and objects, a statement with another
\* predicate, and a token that is no Turtle.
DocTokens ==
  {Stmt(Triple(PodC, LdpContains, NamedNode(PodX))),
   Stmt(Triple(PodC, LdpContains, NamedNode(PodY))),
   Stmt(Triple(PodD, LdpContains, NamedNode(PodX))),
   Stmt(Triple(PodC, RdfType, NamedNode(LdpBasicContainer))),
   Junk}

Documents == UNION {[1..n -> DocTokens] : n \in 0..MaxDocLen}

\* What solidSession.fetch(url) may resolve to.
Responses == [ok : BOOLEAN, text : Documents]

Threw(message, fetched) ==
  [threw |-> TRUE, message |-> message, value |-> <<>>, fetched |-> fetched]

Returned(value, fetched) ==
  [threw |-> FALSE, message |-> "", value |-> value, fetched |-> fetched]

\* containerUrl.endsWith('/')
endsWith(str, ch) == Len(str) > 0 /\ str[Len(str)] = ch

\* readRdfResource(url), the Pod answering the fetch with response
readRdfResource(session, url, response) ==
  IF session.isNull
    THEN Threw("Solid session not initialized", <<>>)
    ELSE LET fetched == <<[url |-> url, response |-> response,
                           session |-> session]>>
         IN  IF ~response.ok
               THEN Threw("Failed to fetch RDF resource", fetched)
               ELSE Returned(response.text, fetched)

\* store.addQuads(quads): a quad that is already there is not added again.
addQuads(quads) == {quads[i] : i \in 1..Len(quads)}

\* store.getQuads(null, predicate, null, null), and below it as it would be
\* with null for the predicate too.
getQuadsOfAnyPredicate(store, predicate) == store

getQuads(store, predicate) == {q \in store : q.predicate.value = predicate}

\* The arrays that hold every element of a set once.
Orderings(S) ==
  {f \in [1..Cardinality(S) -> S] :
     \A i, j \in 1..Cardinality(S) : i # j => f[i] # f[j]}

\* listContainer from the call of readRdfResource on: the outcomes it may
\* end with, one for every order the store may hand the matching quads
\* back in.
containedResources(session, containerUrl, response) ==
  LET rdfContent == readRdfResource(session, containerUrl, response)
  IN  IF rdfContent.threw
        THEN {rdfContent}
        ELSE IF ~ParseOk(rdfContent.value)
               THEN {Threw("Syntax error", rdfContent.fetched)}
               ELSE LET store == addQuads(ParseTriples(rdfContent.value))
                        containsQuads == getQuads(store, LdpContains)
                    IN  {Returned([i \in 1..Cardinality(containsQuads) |->
                                     order[i].object.value],
                                  rdfContent.fetched) :
                           order \in Orderings(containsQuads)}

\* listContainer(containerUrl), and above it as it would be without the
\* test of the trailing slash.
listContainerOfAnyUrl(session, containerUrl, response) ==
  containedResources(session, containerUrl, response)

listContainer(session, containerUrl, response) ==
  IF ~endsWith(containerUrl, "/")
    THEN {Threw("Container URL must end with /", <<>>)}
    ELSE containedResources(session, containerUrl, response)

\* JSON.stringify of an array of strings, as tokens: brackets, commas and
\* the quoted strings.
Punct(ch) == [kind |-> "punct", value |-> <<ch>>]

Quoted(str) == [kind |-> "string", value |-> str]

RECURSIVE StringifyItems(_)
StringifyItems(array) ==
  IF array = <<>> THEN <<>>
  ELSE IF Len(array) = 1 THEN <<Quoted(array[1])>>
  ELSE <<Quoted(array[1]), Punct(",")>> \o StringifyItems(Tail(array))

StringifyArray(array) == <<Punct("[")>> \o StringifyItems(array) \o <<Punct("]")>>

NoRequest == [name |-> "", arguments |-> [containerUrl |-> <<>>]]

\* No call of a tool has ended.
NoResult ==
  [done |-> FALSE, threw |-> FALSE, message |-> "", content |-> <<>>]

InitServer ==
  /\ states = <<>>
  /\ currentStateIndex = 0
  /\ lastRenderedIndex = -1
  /\ isLive = TRUE
  /\ isPaused = FALSE
  /\ lastRdfContent = NullContent
  /\ rdfFilePath = DefaultPath
  /\ typeDisplay = "on"
  /\ tickSlider = [value |-> 0, max |-> 0]
  /\ timeSlider = [value |-> 0, max |-> 0]
  /\ inflight = [u \in Urls |-> 0]
  /\ clock = 0
  /\ calls = <<>>
  /\ input = NoRequest
  /\ output = NoResult
  /\ solidSession = NoSession
  /\ requests = <<>>
  /\ file = NoFile
  /\ config = NoConfig

\* setSolidSession(session)
SetSolidSession ==
  \E session \in Sessions :
    /\ solidSession' = session
    /\ UNCHANGED <<states, currentStateIndex, lastRenderedIndex, isLive,
                   isPaused, lastRdfContent, rdfFilePath, typeDisplay,
                   tickSlider, timeSlider, inflight, clock, calls, input,
                   output, requests, file, config>>

\* The CallTool handler, request.params.name being "solid_list": the
\* promise it returns rejects with what listContainer throws, or resolves
\* to one text content holding the resources as JSON.
SolidListCallWith(containerUrl, response) ==
  /\ \E resources \in listContainer(solidSession, containerUrl, response) :
       /\ input' = [name |-> "solid_list",
                    arguments |-> [containerUrl |-> containerUrl]]
       /\ requests' = resources.fetched
       /\ output' =
            IF resources.threw
              THEN [done |-> TRUE, threw |-> TRUE,
                    message |-> resources.message, content |-> <<>>]
              ELSE [done |-> TRUE, threw |-> FALSE, message |-> "",
                    content |-> <<[type |-> "text",
                                   text |-> StringifyArray(resources.value)]>>]
  /\ UNCHANGED <<states, currentStateIndex, lastRenderedIndex, isLive, isPaused,
                 lastRdfContent, rdfFilePath, typeDisplay, tickSlider,
                 timeSlider, inflight, clock, calls, solidSession, file, config>>

\* One call of the tool on a server just started or given a session.
SolidListCall ==
  /\ ~output.done
  /\ \E containerUrl \in ContainerUrls, response \in Responses :
       SolidListCallWith(containerUrl, response)

NextServer == SetSolidSession \/ SolidListCall

SpecServer == InitServer /\ [][NextServer]_vars

(***************************************************************************)
(* The server's other tools and initializeSolidSession, called one after   *)
(* the other in any order.  What session.login, the Pod and the query      *)
(* engine do is theirs to decide: login resolves or rejects, the Pod       *)
(* answers a fetch with any response, the engine fetches its source with   *)
(* the fetch it was given and hands back a result of one of its types.     *)
(***************************************************************************)
\* new Session(), before and after a login
NewSession(isLoggedIn) == [isNull |-> FALSE, isLoggedIn |-> isLoggedIn]

\* ConfigSchema: an optional string that is absent is the empty string here.
Configs ==
  [isNull : {FALSE}, podUrl : {PodC}, webId : {PodX},
   clientId : {"", "id"}, clientSecret : {"", "secret"}]

\* The URLs the tools are called with, and what the Pod answers.
ToolUrls == {PodC, PodX}

ToolDocuments ==
  {<<>>,
   <<Stmt(Triple(PodC, LdpContains, NamedNode(PodX)))>>,
   <<Stmt(Triple(PodC, LdpContains, NamedNode(PodX))),
     Stmt(Triple(PodC, RdfType, NamedNode(LdpBasicContainer)))>>,
   <<Junk>>}

ToolResponses == [ok : BOOLEAN, text : ToolDocuments]

\* session.login(...) as it was called and whether it resolved.
Login(cfg, loginResolves) ==
  <<[login |-> [clientId |-> cfg.clientId, clientSecret |-> cfg.clientSecret],
     resolves |-> loginResolves]>>

\* initializeSolidSession(cfg) with the globals as they are: whether it
\* threw, the globals as it leaves them, and the login it tried.  Above
\* it, as it would be with the globals assigned before the login.
initializeSolidSessionEager(session0, config0, cfg, loginResolves) ==
  IF cfg.clientId # "" /\ cfg.clientSecret # ""
    THEN [threw |-> ~loginResolves,
          message |-> IF loginResolves THEN "" ELSE "login failed",
          solidSession |-> NewSession(loginResolves), config |-> cfg,
          fetched |-> Login(cfg, loginResolves)]
    ELSE [threw |-> FALSE, message |-> "",
          solidSession |-> NewSession(FALSE), config |-> cfg,
          fetched |-> <<>>]

initializeSolidSession(session0, config0, cfg, loginResolves) ==
  IF cfg.clientId # "" /\ cfg.clientSecret # ""
    THEN IF loginResolves
           THEN [threw |-> FALSE, message |-> "",
                 solidSession |-> NewSession(TRUE), config |-> cfg,
                 fetched |-> Login(cfg, loginResolves)]
           ELSE [threw |-> TRUE, message |-> "login failed",
                 solidSession |-> session0, config |-> config0,
                 fetched |-> Login(cfg, loginResolves)]
    ELSE [threw |-> FALSE, message |-> "",
          solidSession |-> NewSession(FALSE), config |-> cfg,
          fetched |-> <<>>]

\* What a tool call ends with.
Rejected(message) ==
  [done |-> TRUE, threw |-> TRUE, message |-> message, content |-> <<>>]

Resolved(text) ==
  [done |-> TRUE, threw |-> FALSE, message |-> "",
   content |-> <<[type |-> "text", text |-> text]>>]

\* A template literal or a fixed string of a tool's answer, as one token.
Words(what) == [kind |-> "words", value |-> what]

\* initializeSolidSession(cfg) called from outside the handlers
InitializeSolidSessionCall ==
  /\ \E cfg \in Configs, loginResolves \in BOOLEAN :
       LET r == initializeSolidSession(solidSession, config, cfg, loginResolves)
       IN  /\ input' = [name |-> "initializeSolidSession", arguments |-> cfg]
           /\ solidSession' = r.solidSession
           /\ config' = r.config
           /\ requests' = r.fetched
           /\ output' = IF r.threw THEN Rejected(r.message)
                                   ELSE Resolved(<<Words("session")>>)
  /\ UNCHANGED <<states, currentStateIndex, lastRenderedIndex, isLive, isPaused,
                 lastRdfContent, rdfFilePath, typeDisplay, tickSlider,
                 timeSlider, inflight, clock, calls, file>>

\* The CallTool handler, request.params.name being "solid_init": the
\* configuration it passes on holds podUrl and webId only.
SolidInitCall ==
  /\ LET cfg == [isNull |-> FALSE, podUrl |-> PodC, webId |-> PodX,
                 clientId |-> "", clientSecret |-> ""]
         r == initializeSolidSession(solidSession, config, cfg, TRUE)
     IN  /\ input' = [name |-> "solid_init",
                      arguments |-> [podUrl |-> PodC, webId |-> PodX]]
         /\ solidSession' = r.solidSession
         /\ config' = r.config
         /\ requests' = r.fetched
         /\ output' = IF r.threw THEN Rejected(r.message)
                                 ELSE Resolved(<<Words("Initialized")>>)
  /\ UNCHANGED <<states, currentStateIndex, lastRenderedIndex, isLive, isPaused,
                 lastRdfContent, rdfFilePath, typeDisplay, tickSlider,
                 timeSlider, inflight, clock, calls, file>>

\* ... "rdf_read"
RdfReadCall ==
  /\ \E url \in ToolUrls, response \in ToolResponses :
       LET rdfContent == readRdfResource(solidSession, url, response)
       IN  /\ input' = [name |-> "rdf_read", arguments |-> [url |-> url]]
           /\ requests' = rdfContent.fetched
           /\ output' = IF rdfContent.threw THEN Rejected(rdfContent.message)
                                            ELSE Resolved(rdfContent.value)
  /\ UNCHANGED <<states, currentStateIndex, lastRenderedIndex, isLive, isPaused,
                 lastRdfContent, rdfFilePath, typeDisplay, tickSlider,
                 timeSlider, inflight, clock, calls, solidSession, file, config>>

\* appendTriples(url, triples), the Pod answering the PATCH with response.
\* Above it, as it would be without the test of the session.
appendTriplesUnchecked(session, url, triples, response) ==
  LET fetched == <<[url |-> url, method |-> "PATCH",
                    body |-> <<Words("INSERT DATA {")>> \o triples
                               \o <<Words("}")>>,
                    response |-> response, session |-> session]>>
  IN  IF ~response.ok
        THEN Threw("Failed to append triples", fetched)
        ELSE Returned(<<>>, fetched)

appendTriples(session, url, triples, response) ==
  IF session.isNull
    THEN Threw("Solid session not initialized", <<>>)
    ELSE LET fetched == <<[url |-> url, method |-> "PATCH",
                           body |-> <<Words("INSERT DATA {")>> \o triples
                                      \o <<Words("}")>>,
                           response |-> response, session |-> session]>>
         IN  IF ~response.ok
               THEN Threw("Failed to append triples", fetched)
               ELSE Returned(<<>>, fetched)

\* ... "rdf_append"
RdfAppendCall ==
  /\ \E url \in ToolUrls, triples \in ToolDocuments, response \in ToolResponses :
       LET r == appendTriples(solidSession, url, triples, response)
       IN  /\ input' = [name |-> "rdf_append",
                        arguments |-> [url |-> url, triples |-> triples]]
           /\ requests' = r.fetched
           /\ output' = IF r.threw THEN Rejected(r.message)
                                   ELSE Resolved(<<Words("Successfully appended")>>)
  /\ UNCHANGED <<states, currentStateIndex, lastRenderedIndex, isLive, isPaused,
                 lastRdfContent, rdfFilePath, typeDisplay, tickSlider,
                 timeSlider, inflight, clock, calls, solidSession, file, config>>

\* An argument of sparql_match that is null, undefined or empty.
Wildcard == <<>>

\* store.getQuads(subject || null, predicate || null, object || null, null)
matchQuads(store, subject, predicate, object) ==
  {q \in store :
     /\ subject = Wildcard \/ q.subject.value = subject
     /\ predicate = Wildcard \/ q.predicate.value = predicate
     /\ object = Wildcard \/ q.object.value = object}

\* sparqlMatch(url, subject, predicate, object): the outcomes it may end
\* with, one for every order the store may hand the matching quads back in.
sparqlMatch(session, url, subject, predicate, object, response) ==
  LET rdfContent == readRdfResource(session, url, response)
  IN  IF rdfContent.threw
        THEN {rdfContent}
        ELSE IF ~ParseOk(rdfContent.value)
               THEN {Threw("Syntax error", rdfContent.fetched)}
               ELSE LET store == addQuads(ParseTriples(rdfContent.value))
                        matches == matchQuads(store, subject, predicate, object)
                    IN  {Returned([i \in 1..Cardinality(matches) |->
                                     [subject |-> order[i].subject.value,
                                      predicate |-> order[i].predicate.value,
                                      object |-> order[i].object.value]],
                                  rdfContent.fetched) :
                           order \in Orderings(matches)}

\* JSON.stringify(matches, null, 2), as tokens.
RECURSIVE StringifyMatches(_)
StringifyMatches(matches) ==
  IF matches = <<>> THEN <<>>
  ELSE <<Punct("{"), Quoted(matches[1].subject), Quoted(matches[1].predicate),
         Quoted(matches[1].object), Punct("}")>>
       \o StringifyMatches(Tail(matches))

\* ... "sparql_match"
SparqlMatchCall ==
  /\ \E url \in ToolUrls, response \in ToolResponses,
        subject \in {Wildcard, PodC}, predicate \in {Wildcard, LdpContains} :
       \E matches \in sparqlMatch(solidSession, url, subject, predicate,
                                  Wildcard, response) :
         /\ input' = [name |-> "sparql_match",
                      arguments |-> [url |-> url, subject |-> subject,
                                     predicate |-> predicate,
                                     object |-> Wildcard]]
         /\ requests' = matches.fetched
         /\ output' =
              IF matches.threw THEN Rejected(matches.message)
              ELSE IF Len(matches.value) = 0
                     THEN Resolved(<<Words("No matches found (0 triples)")>>)
                     ELSE Resolved(<<Punct("[")>>
                                     \o StringifyMatches(matches.value)
                                     \o <<Punct("]")>>)
  /\ UNCHANGED <<states, currentStateIndex, lastRenderedIndex, isLive, isPaused,
                 lastRdfContent, rdfFilePath, typeDisplay, tickSlider,
                 timeSlider, inflight, clock, calls, solidSession, file, config>>

\* result.resultType of the query engine
ResultTypes == {"bindings", "quads", "boolean", "void"}

\* executeSparqlQuery(url, query): the engine fetches the source with
\* solidSession.fetch and answers with a result of type resultType, or
\* throws when the source cannot be read.
executeSparqlQuery(session, url, resultType, response) ==
  IF session.isNull
    THEN Threw("Solid session not initialized", <<>>)
    ELSE LET fetched == <<[url |-> url, response |-> response,
                           session |-> session]>>
         IN  IF ~response.ok \/ ~ParseOk(response.text)
               THEN Threw("query failed", fetched)
               ELSE IF resultType = "void"
                      THEN Threw("Unsupported query result type", fetched)
                      ELSE Returned(<<Words(resultType)>>, fetched)

\* ... "sparql_query"
SparqlQueryCall ==
  /\ \E url \in ToolUrls, resultType \in ResultTypes, response \in ToolResponses :
       LET result == executeSparqlQuery(solidSession, url, resultType, response)
       IN  /\ input' = [name |-> "sparql_query",
                        arguments |-> [url |-> url, query |-> resultType]]
           /\ requests' = result.fetched
           /\ output' = IF result.threw THEN Rejected(result.message)
                                        ELSE Resolved(result.value)
  /\ UNCHANGED <<states, currentStateIndex, lastRenderedIndex, isLive, isPaused,
                 lastRdfContent, rdfFilePath, typeDisplay, tickSlider,
                 timeSlider, inflight, clock, calls, solidSession, file, config>>

\* ... "solid_list", after any other call
SolidListToolCall ==
  \E containerUrl \in ToolUrls, response \in ToolResponses :
    SolidListCallWith(containerUrl, response)

NextTools ==
  \/ SetSolidSession
  \/ InitializeSolidSessionCall
  \/ SolidInitCall
  \/ RdfReadCall
  \/ RdfAppendCall
  \/ SparqlMatchCall
  \/ SparqlQueryCall
  \/ SolidListToolCall

SpecTools == InitServer /\ [][NextTools]_vars

(***************************************************************************)
(* Properties.                                                             *)
(***************************************************************************)
Live == isLive /\ ~isPaused

Paused == isPaused /\ ~isLive

\* The step appends one snapshot to the history.  Only a poll result does:
\* a rebuild after a policy change starts from the emptied history, and
\* finds it empty beforehand only when the stored text does not parse.
Appends == Len(states') = Len(states) + 1

Requested(index, animate) ==
  \E i \in 1..Len(calls') : calls'[i].index = index /\ calls'[i].animate = animate

\* C1: when the controller is Live and a poll result appends a snapshot at
\* tick k = |History| - 1, the playhead index becomes k and renderState is
\* called for tick k with animate = true.
C1_LiveAutoAdvance ==
  [][(Live /\ Appends)
       => /\ typeDisplay' = typeDisplay
          /\ currentStateIndex' = Len(states') - 1
          /\ Requested(Len(states') - 1, TRUE)]_vars

\* A second snapshot has just been appended in Live mode and drawn animated.
C1_Witness ==
  /\ Live
  /\ Len(states) = 2
  /\ currentStateIndex = 1
  /\ calls = <<RenderCall(1, TRUE, TRUE)>>

\* C2: while Paused, a poll result that appends a snapshot leaves the
\* playhead index and the mode unchanged and calls renderState not at all;
\* and while Paused the index changes only in a step of the time slider,
\* the tick slider or the live button.
C2_PausedKeepsPlayhead ==
  [][/\ (Paused /\ Appends)
          => /\ typeDisplay' = typeDisplay
             /\ currentStateIndex' = currentStateIndex
             /\ isLive' = isLive
             /\ isPaused' = isPaused
             /\ calls' = <<>>
     /\ (Paused /\ currentStateIndex' # currentStateIndex)
          => (TimeSliderInput \/ TickSliderInput \/ LiveButtonClick)]_vars

\* Paused at tick 0 with a second snapshot appended behind the playhead.
C2_Witness ==
  /\ Paused
  /\ Len(states) = 2
  /\ currentStateIndex = 0
  /\ ~states[2].bound
  /\ calls = <<>>
  /\ tickSlider.max = 1

\* C3: seekToTick(tick) on a non-empty history leaves the playhead index
\* at min(max(tick, 0), |History| - 1), for every integer tick.
C3_SeekToTickClamps ==
  [][\A tick \in TickArgs :
       (SeekToTickCallWith(tick) /\ Len(states) > 0)
         => currentStateIndex' = Min(Max(tick, 0), Len(states) - 1)]_vars

\* C4: after a seek by tick or by time on a non-empty history, from either
\* mode, the mode is Live exactly when the selected tick is the newest one.
C4_SeekSetsMode ==
  [][((TickSliderInput \/ TimeSliderInput) /\ Len(states) > 0)
       => /\ isLive' <=> (currentStateIndex' = Len(states') - 1)
          /\ isPaused' <=> ~isLive']_vars

\* tick is among the ticks nearest to t, and no earlier tick is as near.
FirstNearest(sts, t, tick) ==
  /\ tick \in 0..(Len(sts) - 1)
  /\ \A j \in 0..(Len(sts) - 1) :
       Abs(sts[j + 1].timestamp - t) >= Abs(sts[tick + 1].timestamp - t)
  /\ \A j \in 0..(tick - 1) :
       Abs(sts[j + 1].timestamp - t) > Abs(sts[tick + 1].timestamp - t)

\* C5: seekToTime(t) on a non-empty history selects a tick whose timestamp
\* is nearest to t, and the smallest such tick when several are as near.
\* (On a non-empty history seekToTime always calls renderState.)
C5_SeekToTimeNearest ==
  [][(Len(states) > 0 /\ calls' # <<>> /\ TimeSliderInputAt(timeSlider'.value))
       => FirstNearest(states, timeSlider'.value, currentStateIndex')]_vars

\* The time slider stands halfway between two snapshots' timestamps and the
\* earlier one is selected.
C5_Witness ==
  /\ Len(states) = 2
  /\ states[1].timestamp < states[2].timestamp
  /\ 2 * timeSlider.value = states[1].timestamp + states[2].timestamp
  /\ currentStateIndex = 0
  /\ tickSlider.value = 0
  /\ calls # <<>>

\* C6: goLive on a non-empty history sets the playhead index to
\* |History| - 1 and the mode to Live and calls renderState for that tick
\* with animate = false; on an empty history it changes neither the index
\* nor the mode.
C6_GoLive ==
  [][LiveButtonClick
       => IF Len(states) > 0
            THEN /\ currentStateIndex' = Len(states) - 1
                 /\ isLive' /\ ~isPaused'
                 /\ Len(states') = Len(states)
                 /\ Requested(Len(states) - 1, FALSE)
            ELSE /\ currentStateIndex' = currentStateIndex
                 /\ isLive' = isLive
                 /\ isPaused' = isPaused]_vars

\* Live again at the newest of two snapshots, which was drawn unanimated.
C6_Witness ==
  /\ Live
  /\ Len(states) = 2
  /\ currentStateIndex = 1
  /\ calls = <<RenderCall(1, FALSE, TRUE)>>

\* C7: a click on the timeline surface while Live makes the mode Paused and
\* leaves the playhead index and the history unchanged; while Paused it
\* changes nothing of the viewer.
C7_TimelineClickPauses ==
  [][TimelineClick
       => /\ Paused'
          /\ currentStateIndex' = currentStateIndex
          /\ states' = states
          /\ Paused => UNCHANGED <<lastRenderedIndex, lastRdfContent, rdfFilePath,
                                   typeDisplay, tickSlider, timeSlider, config>>]_vars

\* Paused at the newest of two snapshots, which is still the one drawn,
\* with no render called for.
C7_Witness ==
  /\ Paused
  /\ Len(states) = 2
  /\ currentStateIndex = 1
  /\ lastRenderedIndex = 1
  /\ calls = <<>>

\* C8: whenever the history is non-empty, 0 <= playhead index < |History|.
C8_PlayheadInRange ==
  Len(states) > 0 => (0 <= currentStateIndex /\ currentStateIndex < Len(states))

\* C9: the timestamps of the history are strictly increasing.
C9_MonotonicTimestamps ==
  \A i \in 1..(Len(states) - 1) : states[i].timestamp < states[i + 1].timestamp

\* C10: no two adjacent snapshots of the history have equal (nodes, links).
C10_NoAdjacentDuplicates ==
  \A i \in 1..(Len(states) - 1) :
    <<states[i].nodes, states[i].links>> # <<states[i + 1].nodes, states[i + 1].links>>

\* C11: appending a (nodes, links) pair and then appending the same pair
\* again leaves the history as the first append left it, whatever the mode
\* and whether or not the first snapshot was drawn: after every step that
\* appends the projection of the stored text, addNewState of the same
\* triples stores nothing.
C11_IdempotentReAppend ==
  [][Appends
       => (addNewState(This, ParseTriples(lastRdfContent.text), clock).states
             = states)']_vars

\* C12: the history never shrinks and never reorders: in every step each
\* snapshot stored at a tick is still stored at that tick, with the same
\* nodes, links and timestamp.
C12_HistoryNeverShrinks ==
  [][/\ Len(states') >= Len(states)
     /\ \A i \in 1..Len(states) :
          /\ states'[i].nodes = states[i].nodes
          /\ states'[i].links = states[i].links
          /\ states'[i].timestamp = states[i].timestamp]_vars

\* The (nodes, links) pairs of a history, in tick order.
GraphsOf(sts) == [i \in 1..Len(sts) |-> [nodes |-> sts[i].nodes, links |-> sts[i].links]]

\* C13: a step that changes the type display policy leaves in the history
\* nothing but the projection, under the new policy, of the last observed
\* text: that one snapshot when such a text exists and parses, and no
\* snapshot otherwise.
C13_PolicyChangeRebuilds ==
  [][(typeDisplay' # typeDisplay)
       => GraphsOf(states')
            = IF ~lastRdfContent.isNull /\ ParseOk(lastRdfContent.text)
                THEN <<triplesToGraph(ParseTriples(lastRdfContent.text), typeDisplay')>>
                ELSE <<>>]_vars

\* C14: a change of the source path clears the history and the stored
\* text, and a step in which a fetch settles that was issued for another
\* path than the current one neither changes the history nor the stored
\* text.
C14_StaleResultsDiscarded ==
  [][/\ (rdfFilePath' # rdfFilePath)
          => (states' = <<>> /\ lastRdfContent' = NullContent)
     /\ \A u \in Urls \ {UrlFor(rdfFilePath)} :
          (inflight'[u] = inflight[u] - 1)
            => (GraphsOf(states') = GraphsOf(states)
                  /\ lastRdfContent' = lastRdfContent)]_vars

\* The fetches issued by the timer that have not settled yet.
Pending == {<<u, k>> \in Urls \X (1..MaxInflight) : k <= inflight[u]}

\* C15: at most one poll is in flight: the timer issues no fetch while the
\* fetch of an earlier poll has not settled.
C15_PollsSequential == Cardinality(Pending) <= 1

\* C16: a poll whose fetch fails, or whose text is the stored text, leaves
\* the history, the playhead index, the mode and the stored text unchanged
\* and calls renderState not at all; the handler of an identical text
\* returns the viewer as it found it, without parsing or projecting.
C16_NoOpPoll ==
  [][(\/ PollFailed
      \/ /\ ~lastRdfContent.isNull
         /\ \E t \in Readings : PollFetchedWith(lastRdfContent.text, t))
       => /\ UNCHANGED <<states, currentStateIndex, lastRenderedIndex, isLive,
                         isPaused, lastRdfContent, tickSlider, timeSlider, config>>
          /\ calls' = <<>>]_vars

\* Live with one drawn snapshot and its text stored, after a poll that
\* called for no render.
C16_Witness ==
  /\ Live
  /\ Len(states) = 1
  /\ states[1].bound
  /\ lastRdfContent = Content(TextA)
  /\ calls = <<>>

\* C17: a poll whose text does not parse leaves the history, the playhead
\* index and the stored text as they were, and no later rebuild on a
\* policy change empties a history that held snapshots.
C17_ParseErrorIsNoOp ==
  [][/\ (\E rdfContent \in Texts, t \in Readings :
           ~ParseOk(rdfContent) /\ PollFetchedWith(rdfContent, t))
          => UNCHANGED <<states, currentStateIndex, lastRdfContent, config>>
     /\ (typeDisplay' # typeDisplay /\ states # <<>>) => states' # <<>>]_vars

\* The step's handler drew exactly one snapshot, the one at index.
DrawnOnce(index) ==
  /\ Cardinality({i \in 1..Len(calls') : calls'[i].drawn}) = 1
  /\ \E i \in 1..Len(calls') : calls'[i].drawn /\ calls'[i].index = index

\* The step stores a new newest snapshot: a poll result appended, or the
\* rebuild after a policy change.
NewSnapshot ==
  \/ Appends
  \/ (typeDisplay' # typeDisplay /\ states' # <<>> /\ states' # states)

\* C18: the renderer draws exactly once, and the snapshot the playhead
\* selects, in every step that stores a new snapshot in Live mode (the
\* first one after the history was cleared included), in every seek that
\* moves the playhead and in every goLive that moves it.
C18_RenderOncePerChange ==
  [][/\ (Live /\ NewSnapshot) => DrawnOnce(Len(states') - 1)
     /\ (/\ states # <<>>
         /\ currentStateIndex' # currentStateIndex
         /\ (TickSliderInput \/ TimeSliderInput \/ LiveButtonClick))
          => DrawnOnce(currentStateIndex')]_vars

IsTypeStatement(triple) == shortenURI(triple.predicate.value) = TYPE

\* C19: under "nodes" every type statement has, in the projection, a node
\* for its object that is marked as a type node and carries no types, and
\* a link from its subject to its object labelled 'type'; under "on" and
\* "off" the projection has no link labelled 'type', and a node only for
\* the subjects of statements and for the IRI objects of statements that
\* are no type statements.
C19_TypeStatementsAsStructure ==
  output.done =>
    IF typeDisplay = "nodes"
      THEN \A i \in 1..Len(input) :
             IsTypeStatement(input[i]) =>
               /\ \E k \in 1..Len(output.nodes) :
                    /\ output.nodes[k].id = shortenURI(input[i].object.value)
                    /\ output.nodes[k].isType
                    /\ output.nodes[k].types = <<>>
               /\ \E k \in 1..Len(output.links) :
                    output.links[k] = Link(shortenURI(input[i].subject.value),
                                           shortenURI(input[i].object.value), TYPE)
      ELSE /\ \A k \in 1..Len(output.links) : output.links[k].predicate # TYPE
           /\ {output.nodes[k].id : k \in 1..Len(output.nodes)}
                = {shortenURI(input[i].subject.value) : i \in 1..Len(input)}
                    \cup {shortenURI(input[i].object.value) :
                            i \in {j \in 1..Len(input) :
                                     /\ ~IsTypeStatement(input[j])
                                     /\ input[j].object.termType = "NamedNode"}}

\* The shortened objects of the first n triples' type statements about id,
\* in statement order.
RECURSIVE TypeTags(_, _, _)
TypeTags(triples, id, n) ==
  IF n = 0 THEN <<>>
  ELSE TypeTags(triples, id, n - 1)
         \o (IF IsTypeStatement(triples[n])
                /\ shortenURI(triples[n].subject.value) = id
               THEN <<shortenURI(triples[n].object.value)>>
               ELSE <<>>)

\* C20: under "on" the types of every projected node are the shortened
\* objects of the type statements about it, in statement order and as
\* often as stated; under "off" and "nodes" every node's types are empty.
C20_TypeTags ==
  output.done =>
    \A k \in 1..Len(output.nodes) :
      output.nodes[k].types
        = IF typeDisplay = "on"
            THEN TypeTags(input, output.nodes[k].id, Len(input))
            ELSE <<>>

\* Under "on", a node tagged from three type statements, one of them a
\* repetition of the first.
C20_Witness ==
  /\ output.done
  /\ typeDisplay = "on"
  /\ input = <<TypeAP, TypeAQ, TypeAP>>
  /\ \E k \in 1..Len(output.nodes) :
       output.nodes[k].types = <<<<"P">>, <<"Q">>, <<"P">>>>

\* C21: for every statement whose object is a literal, under every setting
\* the projection has no node whose id is the literal's value and no link
\* whose target is it.
C21_LiteralExclusion ==
  output.done =>
    \A i \in 1..Len(input) :
      input[i].object.termType = "Literal" =>
        /\ \A k \in 1..Len(output.nodes) :
             output.nodes[k].id # input[i].object.value
        /\ \A k \in 1..Len(output.links) :
             output.links[k].target # input[i].object.value

IndexPermutations(n) ==
  {p \in [1..n -> 1..n] : \A i, j \in 1..n : i # j => p[i] # p[j]}

Permuted(triples, p) == [i \in 1..Len(triples) |-> triples[p[i]]]

NodeSet(nodes) == {nodes[k] : k \in 1..Len(nodes)}

\* C22: under every setting, the projection of every permutation of the
\* statements has the same nodes, each with the same types and the same
\* type-node mark.
C22_OrderIndependent ==
  output.done =>
    \A p \in IndexPermutations(Len(input)) :
      NodeSet(triplesToGraph(Permuted(input, p), typeDisplay).nodes)
        = NodeSet(output.nodes)

\* C23: stating again a statement that is no type statement leaves the
\* projection as it is: the same nodes and the same links.
C23_DuplicateIdempotent ==
  output.done =>
    \A i \in 1..Len(input) :
      ~IsTypeStatement(input[i]) =>
        LET again == triplesToGraph(Append(input, input[i]), typeDisplay)
        IN  /\ again.nodes = output.nodes
            /\ again.links = output.links

HasSeparator(uri) == \E i \in 1..Len(uri) : uri[i] \in Separators

\* What follows the last separator of uri.
AfterLastSeparator(uri) ==
  LET last == CHOOSE i \in 1..Len(uri) :
                /\ uri[i] \in Separators
                /\ \A j \in (i + 1)..Len(uri) : uri[j] \notin Separators
  IN  SubSeq(uri, last + 1, Len(uri))

\* C25, as claimed: shortenURI returns what follows the last '/' or '#' of
\* the IRI, also when nothing follows it, and the IRI itself when it holds
\* neither separator.
C25_ShortenerLastSegment ==
  output.done =>
    output.value = IF HasSeparator(input) THEN AfterLastSeparator(input)
                                          ELSE input

\* C25, amended: shortenURI returns what follows the last '/' or '#' of the
\* IRI when something follows it, and the IRI itself when it ends with a
\* separator or holds none.
C25_ShortenerNonEmptyTail ==
  output.done =>
    output.value = IF HasSeparator(input) /\ Last(input) \notin Separators
                     THEN AfterLastSeparator(input)
                     ELSE input

\* An IRI that ends with a separator has been returned whole.
C25_Witness ==
  /\ output.done
  /\ input = <<"a", "#", "a", "/">>
  /\ output.value = input

\* The container URL the latest tool call was given.
CalledUrl == input.arguments.containerUrl

\* The document the latest tool call fetched.
FetchedDocument == requests[1].response.text

\* The distinct ldp:contains statements of a document.
ContainsStatements(doc) ==
  {doc[i].triple : i \in {j \in 1..Len(doc) :
                            /\ doc[j].kind = "statement"
                            /\ doc[j].triple.predicate.value = LdpContains}}

\* The strings of a JSON text, in order.
Entries(text) ==
  LET strings == SelectSeq(text, LAMBDA tok : tok.kind = "string")
  IN  [i \in 1..Len(strings) |-> strings[i].value]

Count(seq, x) == Cardinality({i \in 1..Len(seq) : seq[i] = x})

\* C26: solid_list called with a container URL that does not end with "/"
\* rejects with the error about the trailing slash, and no request has
\* been sent through the Solid session.
C26_RejectsUrlWithoutSlash ==
  (output.done /\ (CalledUrl = <<>> \/ Last(CalledUrl) # "/")) =>
    /\ output.threw
    /\ output.message = "Container URL must end with /"
    /\ requests = <<>>

C26_Witness ==
  /\ output.done
  /\ CalledUrl = <<"/", "c">>
  /\ solidSession = Session
  /\ output.threw
  /\ requests = <<>>

\* C27: when solid_list returns, it was given a URL ending with "/", it
\* fetched that URL once, and the JSON array it returns holds one entry for
\* every ldp:contains statement of the fetched document, that statement's
\* object, and no other entry (so none for a document without such a
\* statement); and it does return whenever the fetch answered ok with a
\* well-formed document.
C27_ListsContainedResources ==
  output.done =>
    /\ ~output.threw =>
         /\ CalledUrl # <<>> /\ Last(CalledUrl) = "/"
         /\ Len(requests) = 1 /\ requests[1].url = CalledUrl
         /\ Len(output.content) = 1
         /\ LET text == output.content[1].text
                entries == Entries(text)
                statements == ContainsStatements(FetchedDocument)
            IN  /\ Head(text) = Punct("[") /\ Last(text) = Punct("]")
                /\ Len(entries) = Cardinality(statements)
                /\ \A q \in statements :
                     Count(entries, q.object.value) =
                       Cardinality({r \in statements : r.object = q.object})
                /\ statements = {} => text = <<Punct("["), Punct("]")>>
    /\ (output.threw /\ requests # <<>>) =>
         \/ ~requests[1].response.ok
         \/ \E i \in 1..Len(FetchedDocument) : FetchedDocument[i].kind = "junk"

C27_Witness ==
  /\ output.done
  /\ ~output.threw
  /\ Len(FetchedDocument) = 3
  /\ Entries(output.content[1].text) = <<PodX, PodX>>

\* The tick drawn last before the i-th renderState call of the step's
\* handler: that of the latest earlier call of the handler that drew, or
\* else the one shown when the handler began.
ShownBefore(i) ==
  LET earlier == {j \in 1..(i - 1) : calls'[j].drawn}
  IN  IF earlier = {}
        THEN lastRenderedIndex
        ELSE calls'[CHOOSE j \in earlier : \A k \in earlier : k <= j].index

\* C28: no handler draws the tick that was drawn last: every renderState
\* call that draws is for a tick other than the one already shown, so a
\* seek, goLive or append that selects the shown tick draws nothing.
C28_NoRenderOfShownTick ==
  [][\A i \in 1..Len(calls') :
       calls'[i].drawn => calls'[i].index # ShownBefore(i)]_vars

\* A handler has asked for the tick already shown and nothing was drawn.
C28_Witness ==
  /\ Len(states) = 2
  /\ Len(calls) = 1
  /\ calls[1].index = lastRenderedIndex
  /\ ~calls[1].drawn

\* C29: no two nodes of a projection have the same id, whatever the
\* statements and the policy, also when two IRIs shorten to one label.
C29_UniqueNodeIds ==
  output.done =>
    \A i, j \in 1..Len(output.nodes) :
      i # j => output.nodes[i].id # output.nodes[j].id

\* Two IRIs with the label P were projected, and one node has that id.
C29_Witness ==
  /\ output.done
  /\ \E i, j \in 1..Len(input) :
       /\ input[i].object.value = ExPerson
       /\ input[j].object.value = ExSlashP
  /\ Cardinality({k \in 1..Len(output.nodes) :
                    output.nodes[k].id = <<"P">>}) = 1

\* seq is other in another order: the same elements as often, not the same
\* sequence.
IsReordering(seq, other) ==
  /\ seq # other
  /\ Len(seq) = Len(other)
  /\ \A i \in 1..Len(seq) : Count(seq, seq[i]) = Count(other, seq[i])

\* C30: a poll that takes in a new text whose projection has the last
\* snapshot's nodes or links in another order appends that projection as a
\* new snapshot.
C30_ReorderedIsAppended ==
  [][LET candidate ==
           triplesToGraph(ParseTriples(lastRdfContent'.text), typeDisplay)
     IN  (/\ lastRdfContent' # lastRdfContent
          /\ ~lastRdfContent'.isNull
          /\ ParseOk(lastRdfContent'.text)
          /\ states # <<>>
          /\ \/ IsReordering(candidate.nodes, Last(states).nodes)
             \/ IsReordering(candidate.links, Last(states).links))
           => /\ Appends
              /\ Last(states').nodes = candidate.nodes
              /\ Last(states').links = candidate.links]_vars

\* Two adjacent snapshots with the same nodes and links in another order,
\* the earlier one never drawn.
C30_Witness ==
  /\ Len(states) = 2
  /\ ~states[1].bound
  /\ IsReordering(states[2].links, states[1].links)
  /\ IsReordering(states[2].nodes, states[1].nodes)

\* C31: whenever the history is not empty, the maximum of the tick slider
\* is |History| - 1 and the maximum of the time slider is the timestamp of
\* the newest snapshot.
C31_RangeBoundsTrackHistory ==
  states # <<>> =>
    /\ tickSlider.max = Len(states) - 1
    /\ timeSlider.max = Last(states).timestamp

\* A history that was cleared while it held two snapshots (the playhead
\* index still points at the second) and rebuilt at a later time.
C31_Witness ==
  /\ Len(states) = 1
  /\ currentStateIndex = 1
  /\ states[1].timestamp > 0
  /\ tickSlider.max = 0
  /\ timeSlider.max = states[1].timestamp

\* The time slider stands at the timestamp of the snapshot the playhead
\* selects.
TimeAxisAtPlayhead ==
  /\ currentStateIndex >= 0
  /\ currentStateIndex < Len(states)
  /\ timeSlider.value = states[currentStateIndex + 1].timestamp

\* C32: on a non-empty history, after seekToTime the tick slider stands at
\* the playhead index, and after seekToTick(k), goToLive or an append in
\* Live mode the time slider stands at the timestamp of the snapshot at
\* the playhead index.
C32_AxesConsistent ==
  [][/\ (TimeSliderInput /\ states # <<>>)
          => tickSlider'.value = currentStateIndex'
     /\ ((SeekToTickCall \/ TickSliderInput \/ (LiveButtonClick /\ ~isLive))
           /\ states # <<>>)
          => TimeAxisAtPlayhead'
     /\ (Live /\ Appends) => TimeAxisAtPlayhead']_vars

\* C33: isLive is true exactly when isPaused is false.
C33_ModesComplementary == isLive <=> ~isPaused

\* Paused on a history of two snapshots with the playhead on the first.
C33_Witness ==
  /\ Len(states) = 2
  /\ currentStateIndex = 0
  /\ isPaused
  /\ ~isLive

\* C34: whenever the mode is Live and the history is not empty, the
\* playhead index is |History| - 1.
C34_LiveTracksNewest ==
  (Live /\ states # <<>>) => currentStateIndex = Len(states) - 1

\* Live again on the second snapshot of a history that was rebuilt under
\* another policy.
C34_Witness ==
  /\ Live
  /\ typeDisplay # "on"
  /\ Len(states) = 2
  /\ currentStateIndex = 1

\* C35: the source and the target of every link of a projection are ids of
\* nodes of that projection.
C35_LinksJoinNodes ==
  output.done =>
    \A k \in 1..Len(output.links) :
      /\ \E n \in 1..Len(output.nodes) :
           output.nodes[n].id = output.links[k].source
      /\ \E n \in 1..Len(output.nodes) :
           output.nodes[n].id = output.links[k].target

\* A projection under "nodes" with a type link, a link between resources
\* and a statement with a literal object.
C35_Witness ==
  /\ output.done
  /\ typeDisplay = "nodes"
  /\ Len(output.links) = 2
  /\ \E i \in 1..Len(input) : input[i] = NameA
  /\ \E k \in 1..Len(output.links) : output.links[k].predicate = TYPE

\* The newest snapshot is the projection of the file's text under the
\* current policy.
Converged ==
  /\ states # <<>>
  /\ LET graphData == triplesToGraph(ParseTriples(file.text), typeDisplay)
     IN  /\ Last(states).nodes = graphData.nodes
         /\ Last(states).links = graphData.links

\* C36: if from some time on the file holds a text that parses and the
\* source path is not changed any more, then from some time on the newest
\* snapshot is the projection of the file's text under the current policy.
C36_EventualConvergence ==
  (<>[]ParseOk(file.text) /\ <>[][rdfFilePath' = rdfFilePath]_vars)
    => <>[]Converged

\* Converged after the file was rewritten and the policy and the path
\* were changed.
C36_Witness ==
  /\ Converged
  /\ file.writes = MaxWrites
  /\ file.text = TextA
  /\ file.reads = <<>>
  /\ typeDisplay = "nodes"
  /\ rdfFilePath = OtherPath

\* C37: seekToTime and seekToTick on an empty history change neither the
\* playhead index nor the mode, so a viewer that was Live stays Live for
\* the first snapshot.
C37_SeekOnEmptyIsNoOp ==
  [][((TimeSliderInput \/ TickSliderInput) /\ states = <<>>)
       => /\ currentStateIndex' = currentStateIndex
          /\ isLive' = isLive
          /\ isPaused' = isPaused]_vars

\* The tools that read or write a resource.
ResourceTools ==
  {"rdf_read", "rdf_append", "sparql_match", "sparql_query", "solid_list"}

\* The step is a call of one of these tools, solid_list being given a URL
\* that ends with "/".
ResourceToolStep ==
  /\ solidSession' = solidSession
  /\ config' = config
  /\ input'.name \in ResourceTools
  /\ input'.name = "solid_list" => endsWith(input'.arguments.containerUrl, "/")

\* C38: a tool that reads or writes a resource, called while no Solid
\* session is set, fails with "Solid session not initialized" and sends no
\* request; called while a session is set, by setSolidSession or by
\* solid_init, it sends its request through that session.
C38_ToolsNeedSession ==
  [][ResourceToolStep =>
       IF solidSession.isNull
         THEN /\ output'.threw
              /\ output'.message = "Solid session not initialized"
              /\ requests' = <<>>
         ELSE /\ Len(requests') = 1
              /\ requests'[1].session = solidSession
              /\ output'.message # "Solid session not initialized"]_vars

\* rdf_append has failed for want of a session, the session having been
\* initialized and then cleared.
C38_Witness ==
  /\ input.name = "rdf_append"
  /\ solidSession = NoSession
  /\ ~config.isNull
  /\ output.threw
  /\ output.message = "Solid session not initialized"
  /\ requests = <<>>

\* C39: when the login of initializeSolidSession fails, the call throws and
\* the global session and configuration are as they were before it.
C39_FailedLoginKeepsGlobals ==
  [][(/\ InitializeSolidSessionCall
      /\ requests' # <<>>
      /\ ~requests'[1].resolves)
       => /\ output'.threw
          /\ solidSession' = solidSession
          /\ config' = config]_vars

\* A login has failed after an earlier call without credentials had
\* succeeded, and the session and the configuration of the earlier call
\* are still there.
C39_Witness ==
  /\ input.name = "initializeSolidSession"
  /\ output.threw
  /\ requests # <<>>
  /\ ~requests[1].resolves
  /\ solidSession = NewSession(FALSE)
  /\ ~config.isNull
  /\ config # input.arguments
====
